---- MODULE Spec2Model ----
(***************************************************************************)
(* PhysioTwin Clinical: the real-time motion-safety engine of PoseSession. *)
(*                                                                         *)
(* The session component keeps its state in React state cells and refs.    *)
(* Three kinds of callbacks run on the single JavaScript thread, each to   *)
(* completion: the pose pipeline's onResults (one call per delivered       *)
(* frame), the 500 ms duration/rep-limit interval, and the UI handlers     *)
(* (start, pause, reset, skip calibration, patient-reported inputs).       *)
(*                                                                         *)
(* onResults is registered once, by createPose(onResults) inside start(),  *)
(* so every frame of a session runs the function object of the render in   *)
(* which start was clicked: the React state cells it reads (calibration,   *)
(* painCurrent, reportedSwelling, reportedDizziness) are the values of     *)
(* that render (the record "closure" below), while refs and functional     *)
(* state updates act on the live values.                                   *)
(*                                                                         *)
(* Scope: the event log holds the entries the session logic hands to       *)
(* logEvent directly; the voice_alert entries of speakAndLog depend on the *)
(* speech-synthesis collaborator and are not part of the model.  Landmark  *)
(* geometry, smoothing, side lock, drawing, fps display and coaching text  *)
(* are not modelled: a frame is given by its primary angle, compensation   *)
(* angle, and the verdicts of the body-quality and lighting probes.  Time  *)
(* is in milliseconds; angles are whole degrees.                           *)
(*                                                                         *)
(* Timing: camera.stop() resolves without another                         *)
(* callback running in between; the limit-checker effect is cleaned up     *)
(* and re-armed in the step that changes running or repsCompleted; the     *)
(* camera offers frames far more often than the inference rate, so a send  *)
(* the guards of onFrame allow happens before the clock moves on.          *)
(***************************************************************************)
EXTENDS Integers, Sequences, FiniteSets, TLC

(* ------------------------------ bounds -------------------------------- *)
\* Date.now() when the component mounts (any value beyond all rate limits).
Epoch == 100000
\* Number of sends that may be awaiting their results at once.
MaxPending == 1
\* The same in the scenario of a send still awaited when Start is clicked again.
MaxOverlap == 2
\* What the environment may do in one run: clicks on Start, changes of the
\* patient-reported inputs, clicks on Reset, frames of degraded capture.
MaxStarts == 2
MaxReports == 1
MaxResets == 1
MaxBad == 1
\* The clock stops this many ms after Epoch (one horizon per scenario).
HorizonMain == 2400
HorizonLimits == 3500
HorizonJerk == 2500
HorizonHold == 6000
HorizonLoss == 7200
HorizonPain == 3000
HorizonGuide == 8200
HorizonLevels == 4500
HorizonWide == 6500
HorizonGates == 3300
MaxGateBad == 2
\* Changes of the current pain in the scenario of a pain report corrected.
MaxPainReports == 2
\* Clicks on Start in the scenario of a start refused again and again.
MaxLogStarts == 503
HorizonOverlap == 900
HorizonShown == 6500
\* Sessions started one after the other without a reset, and how long they
\* are followed.
MaxRestarts == 3
HorizonRestarts == 3600
HorizonWarn == 20000
\* Calls of the pure functions: angles and band limits from 0 to this many
\* degrees.
MaxCalcDeg == 12
\* Calls of deriveTargetsFromPrescription take the prescription in fractions
\* of a degree (its fields are numbers): so many units to the degree, and
\* safe bands up to so many units wide.
UnitsPerDeg == 10
MaxCalcSpan == 40
\* Calls of adherenceScore: angle histories up to so many frames, repetition
\* counts and limits up to so many, and so many risk events.
MaxCalcFrames == 3
MaxCalcReps == 4
MaxCalcRisk == 11

(* ------------------------- program constants -------------------------- *)
EventCap == 500
QualityFramesNeeded == 8
LightingFramesNeeded == 3
QualityFramesCap == 30
LightingFramesCap == 20
LightingProbeMs == 500
CalibMs == 2000
StillPreMs == 600
StillSpeed == 20
PoseGuideMs == 6500
ActiveAfterMs == 900
HoldYellowGreenMs == 650
HoldGreenYellowMs == 250
HoldOtherMs == 350
SampleMs == 200
SampleCap == 2000
JerkSpeed == 160
JerkResetSpeed == 140
JerkFramesCap == 10
JerkFramesStop == 3
PainStop == 7
PainWarnMin == 4
PainWarnMax == 6
PainWarnMs == 10000
OutOfRangeCap == 20
OutOfRangeStop == 10
OutOfRangeHyst == 2
RepEnterOffset == 2
RepExitOffset == 8
RepMinExcursion == 10
RepMinIntervalMs == 800
RepCap == 999
IntervalMs == 42
LimitCheckMs == 500
MinDtMs == 50
MaxDtMs == 1000
CompensationHipMinDeg == 55
BaselineTolDeg == 12
DefaultPain == 3

\* The reasons stopBySafety is called with.
ReasonTime ==
  "Time limit reached. Stop and rest."
ReasonReps ==
  "Repetition limit reached. Stop and rest."
ReasonJerk ==
  "Sudden movement detected. Stop and rest."
ReasonSymptoms ==
  "Reported symptoms require stopping. Stop and contact your clinician if needed."
ReasonPain ==
  "Pain is high. Stop and rest."
ReasonRange ==
  "Outside safe range. Stop and rest."

(* ------------------------------ inputs -------------------------------- *)
Null == -1

\* Clinician prescriptions handed to the component (props.prescription): a
\* short session, so that the limits are reached, and a long one.
ShortRx ==
  [safeMinDeg |-> 150, safeMaxDeg |-> 185, repLimit |-> 1,
   durationSec |-> 2, deviationStopDeg |-> 15]
LongRx == [ShortRx EXCEPT !.repLimit = 10, !.durationSec = 60]
\* A prescription with a wider safe band (span 52, whose fifth is 10.4).
WideRx == [LongRx EXCEPT !.safeMinDeg = 130, !.safeMaxDeg = 182]

\* Pain values the patient may report.
PainLevels == {3, 5, 8}

\* Compensation (posture) angles a frame may show.
CompAngles == {90}

\* Distance ratio (in hundredths) reported by the body-quality probe.
Ratios == {30}

\* Frame feeds: each replays a cycle of primary angles, one per delivered
\* frame, with a fixed time between two delivered results:
\*   reps  full repetitions between 175 and 152, a frame every 300 ms;
\*   jerk  speeds of 170 and 150 deg/s in turn, a frame every 100 ms;
\*   hold  the angle held at 200 (hold1: at 201), a frame every 300 ms;
\*   loss  a frame every 300 ms: still at 150, fast frames (201, 150, 201) on
\*         frames 10 to 12, still at 184 for 11 frames, one fast frame (133);
\*   far   the angle held at 175 on a slow device, a frame every 900 ms;
\*   wide  repetitions between 150 and 140 (an excursion of 10), a frame
\*         every 500 ms;
\*   levels  runs of green (180), yellow (185) and red (201) frames of
\*         various lengths, a frame every 100 ms;
\*   green  the angle held at 175, inside the ideal band, a frame every
\*         300 ms;
\*   quick  full repetitions between 175 and 152, a frame every 240 ms.
StillRun(a, n) == [i \in 1..n |-> a]

FeedCycles ==
  [reps |-> <<175, 152>>,
   jerk |-> <<165, 182, 167, 150>>,
   hold |-> <<200>>,
   hold1 |-> <<201>>,
   loss |-> StillRun(150, 9) \o <<201, 150, 201>> \o StillRun(184, 11) \o <<133>>,
   far |-> <<175>>,
   green |-> <<175>>,
   quick |-> <<175, 152>>,
   wide |-> <<150, 140>>,
   levels |-> StillRun(180, 8) \o <<185, 180>> \o StillRun(185, 4) \o <<201>>
              \o StillRun(180, 5) \o <<201>> \o StillRun(185, 5)
              \o StillRun(180, 3) \o <<201, 185>>]
FeedGaps ==
  [reps |-> 300, jerk |-> 100, hold |-> 300, hold1 |-> 300, loss |-> 300, far |-> 900,
   wide |-> 500, levels |-> 100, green |-> 300,
   quick |-> 240]

(* --------------------------- pure functions --------------------------- *)
Abs(x) == IF x < 0 THEN -x ELSE x
Min2(a, b) == IF a < b THEN a ELSE b
Max2(a, b) == IF a > b THEN a ELSE b

\* Math.round(p * q / 100) for non-negative integers (round half up).
RoundPct(p, q) == (p * q + 50) \div 100

\* The same function on values given in 1/unit of a degree: Math.round
\* yields whole degrees.
deriveTargetsIn(unit, presc, idealPreference) ==
  LET safeMinDeg == presc.safeMinDeg
      safeMaxDeg == presc.safeMaxDeg
      span == Max2(0, safeMaxDeg - safeMinDeg)
      RoundDeg(pct) == unit * ((span * pct + 50 * unit) \div (100 * unit))
  IN  [idealMinDeg |->
         IF idealPreference = "high"
           THEN Min2(safeMaxDeg, Max2(safeMinDeg, safeMaxDeg - 15 * unit))
         ELSE IF idealPreference = "low" THEN safeMinDeg
         ELSE safeMinDeg + RoundDeg(35),
       idealMaxDeg |->
         IF idealPreference = "high" THEN safeMaxDeg
         ELSE IF idealPreference = "low"
           THEN Max2(safeMinDeg, Min2(safeMaxDeg, safeMinDeg + 15 * unit))
         ELSE safeMinDeg + RoundDeg(85),
       safeMinDeg |-> safeMinDeg,
       safeMaxDeg |-> safeMaxDeg,
       compensationHipMinDeg |-> CompensationHipMinDeg * unit]

deriveTargetsFromPrescription(rx, idealPreference) ==
  LET safeMinDeg == rx.safeMinDeg
      safeMaxDeg == rx.safeMaxDeg
      span == Max2(0, safeMaxDeg - safeMinDeg)
  IN  [idealMinDeg |->
         IF idealPreference = "high"
           THEN Min2(safeMaxDeg, Max2(safeMinDeg, safeMaxDeg - 15))
         ELSE IF idealPreference = "low" THEN safeMinDeg
         ELSE safeMinDeg + RoundPct(span, 35),
       idealMaxDeg |->
         IF idealPreference = "high" THEN safeMaxDeg
         ELSE IF idealPreference = "low"
           THEN Max2(safeMinDeg, Min2(safeMaxDeg, safeMinDeg + 15))
         ELSE safeMinDeg + RoundPct(span, 85),
       safeMinDeg |-> safeMinDeg,
       safeMaxDeg |-> safeMaxDeg,
       compensationHipMinDeg |-> CompensationHipMinDeg]

\* Mutant: the deviation measured above the safe band only.
deviationAboveOnly(angleDeg, safeMinDeg, safeMaxDeg) ==
  IF angleDeg > safeMaxDeg THEN angleDeg - safeMaxDeg ELSE 0

deviationFromSafeRange(angleDeg, safeMinDeg, safeMaxDeg) ==
  IF angleDeg < safeMinDeg THEN safeMinDeg - angleDeg
  ELSE IF angleDeg > safeMaxDeg THEN angleDeg - safeMaxDeg
  ELSE 0

evaluateByAngle(primaryAngleDeg, compensationAngleDeg, tg, deviationStopDeg) ==
  LET outOfRange == primaryAngleDeg < tg.safeMinDeg \/ primaryAngleDeg > tg.safeMaxDeg
      deviationDeg == deviationFromSafeRange(primaryAngleDeg, tg.safeMinDeg, tg.safeMaxDeg)
      compensation == compensationAngleDeg < tg.compensationHipMinDeg
      outsideIdeal == primaryAngleDeg < tg.idealMinDeg \/ primaryAngleDeg > tg.idealMaxDeg
  IN  IF deviationDeg > deviationStopDeg \/ (compensation /\ deviationDeg > 0)
        THEN [level |-> "red", deviationDeg |-> deviationDeg, compensation |-> compensation]
      ELSE IF outOfRange
        THEN [level |-> "yellow", deviationDeg |-> deviationDeg, compensation |-> compensation]
      ELSE IF outsideIdeal \/ compensation
        THEN [level |-> "yellow", deviationDeg |-> 0, compensation |-> compensation]
      ELSE [level |-> "green", deviationDeg |-> 0, compensation |-> FALSE]

\* The posture angle has left the calibrated baseline (shown on the overlay).
baselineCompensation(compAngleDeg, baselineTrunk) ==
  baselineTrunk # Null /\ Abs(compAngleDeg - baselineTrunk) > BaselineTolDeg

\* The speed is kept as the exact fraction dAngle / (dtMs / 1000); known is
\* FALSE where the code returns null.
angleSpeedDegPerSec(last, nowMs, angleDeg) ==
  IF last.ts = 0 THEN [known |-> FALSE, dAngle |-> 0, dtMs |-> 1]
  ELSE IF (nowMs - last.ts) <= MinDtMs \/ (nowMs - last.ts) > MaxDtMs
    THEN [known |-> FALSE, dAngle |-> 0, dtMs |-> 1]
  ELSE [known |-> TRUE, dAngle |-> angleDeg - last.angle, dtMs |-> nowMs - last.ts]

\* Math.abs(speed ?? 0) > k and Math.abs(speed ?? 0) < k, in deg/s.
SpeedAbove(sp, k) == sp.known /\ Abs(sp.dAngle) * 1000 > k * sp.dtMs
SpeedBelow(sp, k) == ~sp.known \/ Abs(sp.dAngle) * 1000 < k * sp.dtMs

\* Math.round(Math.abs(speed ?? 0)).
SpeedRounded(sp) ==
  IF sp.known THEN (2 * Abs(sp.dAngle) * 1000 + sp.dtMs) \div (2 * sp.dtMs) ELSE 0

logEvent(prev, e) ==
  LET next == IF Len(prev) > EventCap
                THEN SubSeq(prev, Len(prev) - EventCap + 1, Len(prev))
                ELSE prev
  IN  Append(next, e)

NoData == [none |-> TRUE]
Event(ts, severity, type, message, data) ==
  [ts |-> ts, severity |-> severity, type |-> type, message |-> message, data |-> data]

(* ------------------------------- state -------------------------------- *)
VARIABLES
  now,                \* Date.now() / performance.now()
  readiness,          \* the three readiness checkboxes are all ticked
  status,             \* "idle" | "starting" | "ready" | "error"
  running,
  camOn,              \* cameraRef.current is a started camera
  poseOn,             \* poseRef.current is a pose object
  poseCl,             \* the closure of the onResults registered with it
  startCl,            \* the closure of the start() call in progress
  inFlight, lastAt,   \* inferRef
  pending,            \* the sends whose results are awaited: closure, arrival time
  painBefore, painCurrent, reportedSwelling, reportedDizziness,
  level, phase, riskEvents, repsCompleted,
  calibration,        \* [state, startedAt]
  baseline,           \* baselineRef: [trunkAngleDeg, distanceRatio]
  stillSince, lastCompAngleDeg, lastDistanceRatio,
  qualityOkFrames, lightingOkFrames, lastFrameQualityAt,
  speedLast,          \* speedRef.last: [ts, angle], ts = 0 for null
  goodPoseSince, exerciseActive,
  levelHold,          \* [proposed, since, committed]
  lastSampleAt, angleSamples,
  jerkFrames, outOfRangeFrames,
  lastPainWarnAt, lastPoseGuideAt,
  repTracker,         \* [state, minSeen, maxSeen]
  repLastAt, startedAt, stoppedBySafety,
  events,
  limTimerAt,         \* when the limit-checker interval was (re)armed or last fired
  rx,                 \* props.prescription
  feed,               \* which frame feed the camera shows, and the position in it
  budget,             \* what the environment may still do
  last,               \* what the last step did (history, read by the properties)
  hist,               \* counts of the frames seen (history, read by the properties)
  calc                \* a call of a pure function: its name, arguments and result

session ==
  <<now, readiness, status, running, camOn, poseOn, poseCl, startCl, inFlight,
    lastAt, pending, painBefore, painCurrent, reportedSwelling,
    reportedDizziness, level, phase, riskEvents, repsCompleted, calibration,
    baseline, stillSince, lastCompAngleDeg, lastDistanceRatio, qualityOkFrames,
    lightingOkFrames, lastFrameQualityAt, speedLast, goodPoseSince,
    exerciseActive, levelHold, lastSampleAt, angleSamples, jerkFrames,
    outOfRangeFrames, lastPainWarnAt, lastPoseGuideAt, repTracker, repLastAt,
    startedAt, stoppedBySafety, events, limTimerAt, rx, feed, budget, last,
    hist>>
vars == <<session, calc>>

\* The program state as one record, so that a handler is a function on it.
S ==
  [now |-> now, readiness |-> readiness, status |-> status, running |-> running,
   camOn |-> camOn, poseOn |-> poseOn, poseCl |-> poseCl, startCl |-> startCl,
   inFlight |-> inFlight, lastAt |-> lastAt, pending |-> pending,
   painBefore |-> painBefore, painCurrent |-> painCurrent,
   reportedSwelling |-> reportedSwelling, reportedDizziness |-> reportedDizziness,
   level |-> level, phase |-> phase, riskEvents |-> riskEvents,
   repsCompleted |-> repsCompleted, calibration |-> calibration,
   baseline |-> baseline, stillSince |-> stillSince,
   lastCompAngleDeg |-> lastCompAngleDeg, lastDistanceRatio |-> lastDistanceRatio,
   qualityOkFrames |-> qualityOkFrames, lightingOkFrames |-> lightingOkFrames,
   lastFrameQualityAt |-> lastFrameQualityAt, speedLast |-> speedLast,
   goodPoseSince |-> goodPoseSince, exerciseActive |-> exerciseActive,
   levelHold |-> levelHold, lastSampleAt |-> lastSampleAt,
   angleSamples |-> angleSamples, jerkFrames |-> jerkFrames,
   outOfRangeFrames |-> outOfRangeFrames, lastPainWarnAt |-> lastPainWarnAt,
   lastPoseGuideAt |-> lastPoseGuideAt, repTracker |-> repTracker,
   repLastAt |-> repLastAt, startedAt |-> startedAt,
   stoppedBySafety |-> stoppedBySafety, events |-> events,
   limTimerAt |-> limTimerAt]

\* The React state cells a function object of the current render reads.
Closure(s) ==
  [calibration |-> s.calibration, painCurrent |-> s.painCurrent,
   reportedSwelling |-> s.reportedSwelling,
   reportedDizziness |-> s.reportedDizziness]

targets == deriveTargetsFromPrescription(rx, "mid")
targetReps == rx.repLimit
durationSec == rx.durationSec

(* ------------------------------ handlers ------------------------------ *)
\* Mutant: stop() clearing the repetition count.
stopClearsReps(s) ==
  [s EXCEPT !.running = FALSE, !.camOn = FALSE, !.poseOn = FALSE,
            !.inFlight = FALSE, !.lastAt = 0, !.repsCompleted = 0]

stop(s) ==
  [s EXCEPT !.running = FALSE, !.camOn = FALSE, !.poseOn = FALSE,
            !.inFlight = FALSE, !.lastAt = 0]

\* Mutant: the stop path without its latch test.
stopBySafetyNoLatch(s, reason, data) ==
  stop([s EXCEPT
         !.stoppedBySafety = TRUE,
         !.level = "red",
         !.riskEvents = @ + 1,
         !.events = logEvent(@, Event(s.now, "stop", "safety_stop", reason, data))])

stopBySafety(s, reason, data) ==
  IF s.stoppedBySafety THEN s
  ELSE stop([s EXCEPT
         !.stoppedBySafety = TRUE,
         !.level = "red",
         !.riskEvents = @ + 1,
         !.events = logEvent(@, Event(s.now, "stop", "safety_stop", reason, data))])

resetSession(s) ==
  [s EXCEPT
     !.riskEvents = 0, !.angleSamples = 0, !.events = <<>>, !.repsCompleted = 0,
     !.level = "yellow", !.phase = "positioning", !.readiness = FALSE,
     !.calibration = [state |-> "idle", startedAt |-> Null],
     !.baseline = [trunkAngleDeg |-> Null, distanceRatio |-> Null],
     !.stillSince = Null, !.jerkFrames = 0, !.outOfRangeFrames = 0,
     !.painCurrent = s.painBefore, !.reportedSwelling = FALSE,
     !.reportedDizziness = FALSE, !.lastSampleAt = 0,
     !.speedLast = [ts |-> 0, angle |-> 0],
     !.lastAt = 0, !.inFlight = FALSE, !.goodPoseSince = Null,
     !.exerciseActive = FALSE, !.startedAt = Null, !.stoppedBySafety = FALSE,
     !.lastPoseGuideAt = 0, !.qualityOkFrames = 0,
     !.levelHold = [proposed |-> "none", since |-> 0, committed |-> "yellow"],
     !.repLastAt = 0,
     !.repTracker = [state |-> "low", minSeen |-> Null, maxSeen |-> Null]]

skipCalibration(s) ==
  [s EXCEPT
     !.baseline = [trunkAngleDeg |-> s.lastCompAngleDeg,
                   distanceRatio |-> s.lastDistanceRatio],
     !.stillSince = Null,
     !.calibration = [state |-> "skipped", startedAt |-> Null]]

(* ------------------------- onResults, by stage ------------------------ *)
\* A frame: [hasLm, angle, comp, ratio, qok, lok].  qok is quality.ok of
\* computeBodyQuality, lok is sampleFrameQuality(video).ok.

lightingGate(s, in) ==
  IF s.now - s.lastFrameQualityAt >= LightingProbeMs
    THEN [s EXCEPT
            !.lastFrameQualityAt = s.now,
            !.lightingOkFrames = IF in.lok THEN Min2(LightingFramesCap, @ + 1) ELSE 0]
    ELSE s

\* Mutant: the quality gate keeping its count on a failing frame.
qualityGateKeeps(s, in) ==
  [s EXCEPT
     !.qualityOkFrames = IF in.qok THEN Min2(QualityFramesCap, @ + 1) ELSE @,
     !.lastCompAngleDeg = in.comp,
     !.lastDistanceRatio = in.ratio]

qualityGate(s, in) ==
  [s EXCEPT
     !.qualityOkFrames = IF in.qok THEN Min2(QualityFramesCap, @ + 1) ELSE 0,
     !.lastCompAngleDeg = in.comp,
     !.lastDistanceRatio = in.ratio]

qualityStableOk(s) == s.qualityOkFrames >= QualityFramesNeeded
lightingStableOk(s) == s.lightingOkFrames >= LightingFramesNeeded

\* calibration is the value the closure holds; setCalibration writes the cell.
calibrationStep(s, cl, in, sp) ==
  LET still == SpeedBelow(sp, StillSpeed)
      canCalibrate == qualityStableOk(s) /\ lightingStableOk(s)
      cal == cl.calibration
  IN  IF cal.state = "calibrating" /\ cal.startedAt # Null
        THEN IF ~still
               THEN [s EXCEPT !.stillSince = Null,
                              !.calibration = [state |-> "idle", startedAt |-> Null]]
             ELSE IF s.now - cal.startedAt >= CalibMs
               THEN [s EXCEPT
                       !.baseline = [trunkAngleDeg |-> in.comp, distanceRatio |-> in.ratio],
                       !.calibration = [state |-> "done", startedAt |-> Null]]
             ELSE s
      ELSE IF cal.state = "idle" /\ canCalibrate
        THEN IF still
               THEN LET since == IF s.stillSince = Null THEN s.now ELSE s.stillSince
                    IN  IF s.now - since >= StillPreMs
                          THEN [s EXCEPT
                                  !.stillSince = Null,
                                  !.calibration = [state |-> "calibrating", startedAt |-> s.now]]
                          ELSE [s EXCEPT !.stillSince = since]
             ELSE [s EXCEPT !.stillSince = Null]
      ELSE s

inPositioning(s, cl) ==
  \/ ~qualityStableOk(s)
  \/ ~lightingStableOk(s)
  \/ (cl.calibration.state # "done" /\ cl.calibration.state # "skipped")

\* Mutant: the positioning gate logging its guidance event on every frame.
positioningStepEveryFrame(s, cl) ==
  LET helpMsg ==
        IF cl.calibration.state # "done" /\ cl.calibration.state # "skipped"
          THEN IF cl.calibration.state = "calibrating" THEN "calibrating" ELSE "calibration_ready"
        ELSE IF ~lightingStableOk(s) THEN "improve_capture"
        ELSE "adjust_position"
      t == [s EXCEPT !.phase = "positioning", !.goodPoseSince = Null,
                     !.exerciseActive = FALSE, !.level = "yellow"]
  IN  [t EXCEPT
         !.lastPoseGuideAt = s.now,
         !.events = logEvent(@, Event(s.now, "warning", "position_guidance", helpMsg, NoData))]

positioningStep(s, cl) ==
  LET helpMsg ==
        IF cl.calibration.state # "done" /\ cl.calibration.state # "skipped"
          THEN IF cl.calibration.state = "calibrating" THEN "calibrating" ELSE "calibration_ready"
        ELSE IF ~lightingStableOk(s) THEN "improve_capture"
        ELSE "adjust_position"
      t == [s EXCEPT !.phase = "positioning", !.goodPoseSince = Null,
                     !.exerciseActive = FALSE, !.level = "yellow"]
  IN  IF s.now - s.lastPoseGuideAt > PoseGuideMs
        THEN [t EXCEPT
                !.lastPoseGuideAt = s.now,
                !.events = logEvent(@, Event(s.now, "warning", "position_guidance", helpMsg, NoData))]
        ELSE t

exerciseActiveStep(s) ==
  LET since == IF s.goodPoseSince = Null THEN s.now ELSE s.goodPoseSince
      t == [s EXCEPT !.goodPoseSince = since]
  IN  IF ~s.exerciseActive /\ s.now - since >= ActiveAfterMs
        THEN [t EXCEPT !.exerciseActive = TRUE, !.phase = "active"]
        ELSE t

\* Mutant: red held back like the other levels.
levelHoldStepRedHeld(s, desired) ==
  LET committed == s.levelHold.committed
  IN  IF committed # desired
        THEN IF s.levelHold.proposed # desired
               THEN [s EXCEPT !.levelHold.proposed = desired, !.levelHold.since = s.now]
             ELSE IF s.now - s.levelHold.since >= HoldOtherMs
               THEN [s EXCEPT !.levelHold = [proposed |-> "none", since |-> 0, committed |-> desired],
                              !.level = desired]
             ELSE s
      ELSE [s EXCEPT !.levelHold.proposed = "none", !.levelHold.since = 0]

\* Mutant: a proposed level committed on its second frame, however early.
levelHoldStepNoWindow(s, desired) ==
  LET committed == s.levelHold.committed
  IN  IF desired = "red"
        THEN [s EXCEPT !.levelHold = [proposed |-> "none", since |-> 0, committed |-> "red"],
                       !.level = "red"]
      ELSE IF committed # desired
        THEN IF s.levelHold.proposed # desired
               THEN [s EXCEPT !.levelHold.proposed = desired, !.levelHold.since = s.now]
               ELSE [s EXCEPT !.levelHold = [proposed |-> "none", since |-> 0, committed |-> desired],
                              !.level = desired]
      ELSE [s EXCEPT !.levelHold.proposed = "none", !.levelHold.since = 0]

\* Mutant: a frame of the committed level starting a hold timer again.
levelHoldStepRetrigger(s, desired) ==
  LET committed == s.levelHold.committed
      holdMs == IF committed = "yellow" /\ desired = "green" THEN HoldYellowGreenMs
                ELSE IF committed = "green" /\ desired = "yellow" THEN HoldGreenYellowMs
                ELSE HoldOtherMs
  IN  IF desired = "red"
        THEN [s EXCEPT !.levelHold = [proposed |-> "none", since |-> 0, committed |-> "red"],
                       !.level = "red"]
      ELSE IF committed # desired
        THEN IF s.levelHold.proposed # desired
               THEN [s EXCEPT !.levelHold.proposed = desired, !.levelHold.since = s.now]
             ELSE IF s.now - s.levelHold.since >= holdMs
               THEN [s EXCEPT !.levelHold = [proposed |-> "none", since |-> 0, committed |-> desired],
                              !.level = desired]
             ELSE s
      ELSE [s EXCEPT !.levelHold.proposed = desired, !.levelHold.since = s.now]

levelHoldStep(s, desired) ==
  LET committed == s.levelHold.committed
      holdMs == IF desired = "red" THEN 0
                ELSE IF committed = "yellow" /\ desired = "green" THEN HoldYellowGreenMs
                ELSE IF committed = "green" /\ desired = "yellow" THEN HoldGreenYellowMs
                ELSE HoldOtherMs
  IN  IF desired = "red"
        THEN [s EXCEPT !.levelHold = [proposed |-> "none", since |-> 0, committed |-> "red"],
                       !.level = "red"]
      ELSE IF committed # desired
        THEN IF s.levelHold.proposed # desired
               THEN [s EXCEPT !.levelHold.proposed = desired, !.levelHold.since = s.now]
             ELSE IF s.now - s.levelHold.since >= holdMs
               THEN [s EXCEPT !.levelHold = [proposed |-> "none", since |-> 0, committed |-> desired],
                              !.level = desired]
             ELSE s
      ELSE [s EXCEPT !.levelHold.proposed = "none", !.levelHold.since = 0]

angleSampleStep(s) ==
  IF s.now - s.lastSampleAt >= SampleMs
    THEN [s EXCEPT !.lastSampleAt = s.now,
                   !.angleSamples = IF @ > SampleCap THEN SampleCap + 1 ELSE @ + 1]
    ELSE s

\* Mutant: the jerk counter without hysteresis (reset below JerkSpeed).
jerkCountNoHysteresis(s, sp) ==
  IF SpeedAbove(sp, JerkSpeed) THEN Min2(JerkFramesCap, s.jerkFrames + 1)
  ELSE IF SpeedBelow(sp, JerkSpeed) THEN 0
  ELSE s.jerkFrames

\* The jerk counter after this frame, before the stop test.
jerkCount(s, sp) ==
  IF SpeedAbove(sp, JerkSpeed) THEN Min2(JerkFramesCap, s.jerkFrames + 1)
  ELSE IF SpeedBelow(sp, JerkResetSpeed) THEN 0
  ELSE s.jerkFrames

\* Mutant: the out-of-range counter counting a deviation equal to the
\* threshold.
outOfRangeCountInclusive(s, deviation) ==
  LET stopThreshold == rx.deviationStopDeg
  IN  IF deviation >= stopThreshold THEN Min2(OutOfRangeCap, s.outOfRangeFrames + 1)
      ELSE IF deviation < Max2(0, stopThreshold - OutOfRangeHyst) THEN 0
      ELSE s.outOfRangeFrames

\* The out-of-range counter after this frame, before the stop test.
outOfRangeCount(s, deviation) ==
  LET stopThreshold == rx.deviationStopDeg
  IN  IF deviation > stopThreshold THEN Min2(OutOfRangeCap, s.outOfRangeFrames + 1)
      ELSE IF deviation < Max2(0, stopThreshold - OutOfRangeHyst) THEN 0
      ELSE s.outOfRangeFrames

\* Mutant: the pain warning without its rate limit.
painWarningStepEveryFrame(s, cl) ==
  IF cl.painCurrent >= PainWarnMin /\ cl.painCurrent <= PainWarnMax
    THEN [s EXCEPT
            !.lastPainWarnAt = s.now,
            !.events = logEvent(@, Event(s.now, "warning", "pain_warning", "moderate",
                                         [pain |-> cl.painCurrent]))]
    ELSE s

painWarningStep(s, cl) ==
  IF cl.painCurrent >= PainWarnMin /\ cl.painCurrent <= PainWarnMax
     /\ s.now - s.lastPainWarnAt > PainWarnMs
    THEN [s EXCEPT
            !.lastPainWarnAt = s.now,
            !.events = logEvent(@, Event(s.now, "warning", "pain_warning", "moderate",
                                         [pain |-> cl.painCurrent]))]
    ELSE s

repCounterStep(s, fbLevel, angle) ==
  LET hiEnter == targets.idealMinDeg + RepEnterOffset
      hiExit == targets.idealMinDeg - RepExitOffset
      minExcursion == Max2(RepMinExcursion, RoundPct(targets.safeMaxDeg - targets.safeMinDeg, 20))
      tr == s.repTracker
      mn == IF tr.minSeen = Null THEN angle ELSE Min2(tr.minSeen, angle)
      mx == IF tr.maxSeen = Null THEN angle ELSE Max2(tr.maxSeen, angle)
      t == [s EXCEPT !.repTracker.minSeen = mn, !.repTracker.maxSeen = mx]
  IN  IF tr.state = "low"
        THEN IF fbLevel = "green" /\ angle >= hiEnter
               THEN [t EXCEPT !.repTracker.state = "high"]
               ELSE t
      ELSE IF angle <= hiExit
        THEN LET okExcursion == mx - mn >= minExcursion
                 okInterval == s.now - s.repLastAt > RepMinIntervalMs
                 u == [t EXCEPT !.repTracker = [state |-> "low", minSeen |-> Null, maxSeen |-> Null]]
             IN  IF okExcursion /\ okInterval
                   THEN [u EXCEPT !.repLastAt = s.now,
                                  !.repsCompleted = Min2(@ + 1, RepCap)]
                   ELSE u
      ELSE t

\* The safety checks and what follows them, in the order of the code.
safetyChecks(s, cl, in, sp, fb) ==
  LET jk == IF s.exerciseActive THEN jerkCount(s, sp) ELSE s.jerkFrames
      deviation == deviationFromSafeRange(in.angle, targets.safeMinDeg, targets.safeMaxDeg)
  IN  IF s.exerciseActive /\ jk >= JerkFramesStop
        THEN stopBySafety([s EXCEPT !.jerkFrames = 0], ReasonJerk,
                          [speed_deg_per_sec |-> SpeedRounded(sp), primary_angle_deg |-> in.angle])
      ELSE
      LET a == [s EXCEPT !.jerkFrames = jk]
      IN  IF cl.reportedSwelling \/ cl.reportedDizziness
            THEN stopBySafety(a, ReasonSymptoms,
                              [swelling |-> cl.reportedSwelling, dizziness |-> cl.reportedDizziness])
          ELSE IF cl.painCurrent >= PainStop
            THEN stopBySafety(a, ReasonPain, [pain |-> cl.painCurrent])
          ELSE
          LET oor == IF a.exerciseActive THEN outOfRangeCount(a, deviation) ELSE a.outOfRangeFrames
          IN  IF a.exerciseActive /\ oor >= OutOfRangeStop
                THEN stopBySafety([a EXCEPT !.outOfRangeFrames = 0], ReasonRange,
                                  [deviation_deg |-> deviation,
                                   safe_min_deg |-> targets.safeMinDeg,
                                   safe_max_deg |-> targets.safeMaxDeg])
              ELSE
              LET b == painWarningStep([a EXCEPT !.outOfRangeFrames = oor], cl)
                  c == IF fb.level = "red" THEN [b EXCEPT !.riskEvents = @ + 1] ELSE b
              IN  repCounterStep(c, fb.level, in.angle)

\* onResults up to the positioning gate: the state the gate sees.
gated(s, cl, in) ==
  LET a == lightingGate(s, in)
      sp == angleSpeedDegPerSec(a.speedLast, s.now, in.angle)
      b == qualityGate([a EXCEPT !.speedLast = [ts |-> s.now, angle |-> in.angle]], in)
  IN  calibrationStep(b, cl, in, sp)

\* TRUE when the frame passes the positioning gate and is scored.
scored(s, cl, in) == in.hasLm /\ ~inPositioning(gated(s, cl, in), cl)

\* Mutant: onResults treating a result without landmarks as a failing frame.
onResultsCountsMissing(s, cl, in) ==
  IF ~in.hasLm THEN [s EXCEPT !.qualityOkFrames = 0, !.phase = "positioning"]
  ELSE
  LET fb == evaluateByAngle(in.angle, in.comp, targets, rx.deviationStopDeg)
      sp == angleSpeedDegPerSec(lightingGate(s, in).speedLast, s.now, in.angle)
      c == gated(s, cl, in)
  IN  IF inPositioning(c, cl) THEN positioningStep(c, cl)
      ELSE safetyChecks(angleSampleStep(levelHoldStep(exerciseActiveStep(c), fb.level)),
                        cl, in, sp, fb)

onResults(s, cl, in) ==
  IF ~in.hasLm THEN s
  ELSE
  LET fb == evaluateByAngle(in.angle, in.comp, targets, rx.deviationStopDeg)
      sp == angleSpeedDegPerSec(lightingGate(s, in).speedLast, s.now, in.angle)
      c == gated(s, cl, in)
  IN  IF inPositioning(c, cl) THEN positioningStep(c, cl)
      ELSE safetyChecks(angleSampleStep(levelHoldStep(exerciseActiveStep(c), fb.level)),
                        cl, in, sp, fb)

\* Mutant: start() re-arming the stop latch as soon as it is clicked.
startBeginRearm(s) ==
  IF ~s.readiness THEN [s EXCEPT !.status = "ready", !.stoppedBySafety = FALSE]
  ELSE IF s.painBefore >= PainStop
    THEN [s EXCEPT
            !.level = "red",
            !.events = logEvent(@, Event(s.now, "stop", "pain_stop", "Session start blocked", NoData)),
            !.running = FALSE,
            !.status = "ready",
            !.stoppedBySafety = FALSE]
  ELSE [s EXCEPT !.status = "starting", !.startCl = Closure(s), !.stoppedBySafety = FALSE]

\* Mutant: start() without its pain gate.
startBeginNoPainGate(s) ==
  IF ~s.readiness THEN [s EXCEPT !.status = "ready"]
  ELSE [s EXCEPT !.status = "starting", !.startCl = Closure(s)]

\* start(): the part that runs in the click handler, up to the first await.
startBegin(s) ==
  IF ~s.readiness THEN [s EXCEPT !.status = "ready"]
  ELSE IF s.painBefore >= PainStop
    THEN [s EXCEPT
            !.level = "red",
            !.events = logEvent(@, Event(s.now, "stop", "pain_stop", "Session start blocked", NoData)),
            !.running = FALSE,
            !.status = "ready"]
  ELSE [s EXCEPT !.status = "starting", !.startCl = Closure(s)]

\* start(): createPose(onResults), the camera, and the statements after
\* "await cam.start()".
startFinish(s) ==
  [s EXCEPT
     !.poseOn = TRUE, !.poseCl = s.startCl, !.lastAt = 0, !.inFlight = FALSE,
     !.camOn = TRUE, !.status = "ready", !.running = TRUE, !.startedAt = s.now,
     !.stoppedBySafety = FALSE,
     !.baseline = [trunkAngleDeg |-> Null, distanceRatio |-> Null],
     !.calibration = [state |-> "idle", startedAt |-> Null],
     !.stillSince = Null, !.jerkFrames = 0, !.outOfRangeFrames = 0,
     !.events = logEvent(@, Event(s.now, "info", "session_start", "Session started", NoData))]

\* Mutant: the limit checker stopping once per limit reached, with no latch.
limitCheckTwice(s) ==
  IF s.startedAt = Null THEN s
  ELSE
  LET a == IF (s.now - s.startedAt) >= durationSec * 1000
             THEN stopBySafetyNoLatch(s, ReasonTime, [duration_sec |-> durationSec])
             ELSE s
  IN  IF s.repsCompleted >= targetReps
        THEN stopBySafetyNoLatch(a, ReasonReps, [rep_limit |-> targetReps])
        ELSE a

\* One firing of the 500 ms duration / rep-limit interval.
\* Mutant: the limit checker enforcing the duration only.
limitCheckNoRepLimit(s) ==
  IF s.startedAt = Null THEN s
  ELSE IF (s.now - s.startedAt) >= durationSec * 1000 /\ ~s.stoppedBySafety
    THEN stopBySafety(s, ReasonTime, [duration_sec |-> durationSec])
  ELSE s

limitCheck(s) ==
  IF s.startedAt = Null THEN s
  ELSE
  LET a == IF (s.now - s.startedAt) >= durationSec * 1000 /\ ~s.stoppedBySafety
             THEN stopBySafety(s, ReasonTime, [duration_sec |-> durationSec])
             ELSE s
  IN  IF s.repsCompleted >= targetReps /\ ~a.stoppedBySafety
        THEN stopBySafety(a, ReasonReps, [rep_limit |-> targetReps])
        ELSE a

\* The camera's onFrame callback when it passes its guards: one send.
\* Its results arrive at time due.
cameraSend(s, due) ==
  [s EXCEPT !.lastAt = s.now, !.inFlight = TRUE,
            !.pending = Append(@, [cl |-> s.poseCl, due |-> due])]

cameraSendAllowed(s) ==
  /\ s.poseOn
  /\ ~s.inFlight
  /\ ~(s.lastAt # 0 /\ s.now - s.lastAt < IntervalMs)

(* ------------------------------ actions ------------------------------- *)
NoFrame == [hasLm |-> FALSE, angle |-> 0, comp |-> 0, ratio |-> 0, qok |-> FALSE, lok |-> FALSE]
NoClosure ==
  [calibration |-> [state |-> "idle", startedAt |-> Null], painCurrent |-> DefaultPain,
   reportedSwelling |-> FALSE, reportedDizziness |-> FALSE]

\* No run of scored frames yet.
NoRun == [level |-> "none", since |-> 0, repeated |-> FALSE, from |-> "none"]

RemoveAt(q, i) == SubSeq(q, 1, i - 1) \o SubSeq(q, i + 1, Len(q))

\* Write the record n back to the variables.  The limit-checker effect runs
\* again (and re-arms its interval) whenever running or repsCompleted change.
Commit(n) ==
  /\ now' = n.now /\ readiness' = n.readiness /\ status' = n.status
  /\ running' = n.running /\ camOn' = n.camOn /\ poseOn' = n.poseOn
  /\ poseCl' = n.poseCl /\ startCl' = n.startCl /\ inFlight' = n.inFlight
  /\ lastAt' = n.lastAt /\ pending' = n.pending /\ painBefore' = n.painBefore
  /\ painCurrent' = n.painCurrent /\ reportedSwelling' = n.reportedSwelling
  /\ reportedDizziness' = n.reportedDizziness /\ level' = n.level
  /\ phase' = n.phase /\ riskEvents' = n.riskEvents
  /\ repsCompleted' = n.repsCompleted /\ calibration' = n.calibration
  /\ baseline' = n.baseline /\ stillSince' = n.stillSince
  /\ lastCompAngleDeg' = n.lastCompAngleDeg
  /\ lastDistanceRatio' = n.lastDistanceRatio
  /\ qualityOkFrames' = n.qualityOkFrames /\ lightingOkFrames' = n.lightingOkFrames
  /\ lastFrameQualityAt' = n.lastFrameQualityAt /\ speedLast' = n.speedLast
  /\ goodPoseSince' = n.goodPoseSince /\ exerciseActive' = n.exerciseActive
  /\ levelHold' = n.levelHold /\ lastSampleAt' = n.lastSampleAt
  /\ angleSamples' = n.angleSamples /\ jerkFrames' = n.jerkFrames
  /\ outOfRangeFrames' = n.outOfRangeFrames /\ lastPainWarnAt' = n.lastPainWarnAt
  /\ lastPoseGuideAt' = n.lastPoseGuideAt /\ repTracker' = n.repTracker
  /\ repLastAt' = n.repLastAt /\ startedAt' = n.startedAt
  /\ stoppedBySafety' = n.stoppedBySafety /\ events' = n.events
  /\ limTimerAt' = IF n.running # running \/ n.repsCompleted # repsCompleted
                     THEN n.now ELSE n.limTimerAt
  /\ calc' = calc

Did(op) == last' = [op |-> op, in |-> NoFrame, cl |-> NoClosure, scored |-> FALSE]

SetReadiness ==
  /\ ~running /\ ~readiness
  /\ Commit([S EXCEPT !.readiness = TRUE])
  /\ Did("SetReadiness")
  /\ UNCHANGED <<rx, feed, budget, hist>>

StartBegin ==
  /\ ~running /\ status # "starting" /\ budget.starts > 0
  /\ Commit(startBegin(S))
  /\ Did("StartBegin")
  /\ budget' = [budget EXCEPT !.starts = @ - 1]
  /\ UNCHANGED <<rx, feed, hist>>

StartFinish ==
  /\ status = "starting"
  /\ Commit(startFinish(S))
  /\ Did("StartFinish")
  /\ hist' = [hist EXCEPT !.activeTicks = 0, !.fastActive = 0, !.slowActive = FALSE]
  /\ UNCHANGED <<rx, feed, budget>>

Pause ==
  /\ running
  /\ Commit(stop(S))
  /\ Did("Pause")
  /\ UNCHANGED <<rx, feed, budget, hist>>

Reset ==
  /\ budget.resets > 0
  /\ Commit(resetSession(stop(S)))
  /\ Did("Reset")
  /\ budget' = [budget EXCEPT !.resets = @ - 1]
  /\ hist' = [hist EXCEPT !.activeTicks = 0, !.fastActive = 0, !.slowActive = FALSE,
                        !.raw = NoRun]
  /\ UNCHANGED <<rx, feed>>

SkipCalibration ==
  /\ running /\ calibration.state # "done" /\ calibration.state # "skipped"
  /\ Commit(skipCalibration(S))
  /\ Did("SkipCalibration")
  /\ UNCHANGED <<rx, feed, budget, hist>>

SetPainBefore ==
  /\ budget.reports > 0
  /\ \E p \in PainLevels \ {painBefore} : Commit([S EXCEPT !.painBefore = p])
  /\ Did("SetPainBefore")
  /\ budget' = [budget EXCEPT !.reports = @ - 1]
  /\ UNCHANGED <<rx, feed, hist>>

SetPainCurrent ==
  /\ budget.reports > 0
  /\ \E p \in PainLevels \ {painCurrent} : Commit([S EXCEPT !.painCurrent = p])
  /\ Did("SetPainCurrent")
  /\ budget' = [budget EXCEPT !.reports = @ - 1]
  /\ UNCHANGED <<rx, feed, hist>>

SetReportedSwelling ==
  /\ budget.reports > 0
  /\ Commit([S EXCEPT !.reportedSwelling = ~reportedSwelling])
  /\ Did("SetReportedSwelling")
  /\ budget' = [budget EXCEPT !.reports = @ - 1]
  /\ UNCHANGED <<rx, feed, hist>>

SetReportedDizziness ==
  /\ budget.reports > 0
  /\ Commit([S EXCEPT !.reportedDizziness = ~reportedDizziness])
  /\ Did("SetReportedDizziness")
  /\ budget' = [budget EXCEPT !.reports = @ - 1]
  /\ UNCHANGED <<rx, feed, hist>>

\* The camera calls onFrame many times per IntervalMs, so a send that the
\* guards allow happens before the clock moves.
SendDue == camOn /\ cameraSendAllowed(S) /\ Len(pending) < budget.pending

\* Time passes only by the next thing due: the arrival of a send's results
\* or, while a session runs, the next firing of the limit-checker interval.
TimerDue == limTimerAt + LimitCheckMs
NothingDueBefore(t) ==
  /\ \A j \in 1..Len(pending) : pending[j].due >= t
  /\ running => TimerDue >= t
  /\ t > now => ~SendDue
  /\ t <= Epoch + budget.horizon

CameraFrame ==
  /\ SendDue
  /\ Commit(cameraSend(S, now + FeedGaps[feed.kind]))
  /\ Did("CameraFrame")
  /\ UNCHANGED <<rx, feed, budget, hist>>

\* The angle the feed shows on the next frame.
FeedAngle == FeedCycles[feed.kind][feed.pos]

\* The speed onResults computes for a frame arriving at time t.
frameSpeed(t, in) == angleSpeedDegPerSec(speedLast, t, in.angle)

\* History of the frames: activeTicks counts the frames of this session
\* scored with the exercise active and the latch clear (up to and including
\* the frame that stops the session), fastActive those of them faster than
\* JerkSpeed, slowActive whether one of them was slower than JerkResetSpeed
\* (or of unknown speed, which the jerk code reads as 0), fastRun the frames
\* faster than JerkSpeed since the last frame slower than JerkResetSpeed.
FrameHistory(in, sp, active) ==
  IF ~in.hasLm THEN hist
  ELSE [hist EXCEPT
          !.activeTicks = IF active THEN @ + 1 ELSE @,
          !.fastActive = IF active /\ SpeedAbove(sp, JerkSpeed) THEN @ + 1 ELSE @,
          !.slowActive = @ \/ (active /\ SpeedBelow(sp, JerkResetSpeed)),
          !.fastRun = IF SpeedAbove(sp, JerkSpeed) THEN @ + 1
                      ELSE IF sp.known /\ SpeedBelow(sp, JerkResetSpeed) THEN 0
                      ELSE @]

\* The raw classification of a frame (fb.level), and the history of the run
\* of scored frames that share it: the level, when its first frame arrived,
\* whether it has more than one frame, and the level that was committed
\* before its latest frame.
rawLevel(in) == evaluateByAngle(in.angle, in.comp, targets, rx.deviationStopDeg).level
RawRun(in, isScored, t) ==
  IF ~isScored THEN hist.raw
  ELSE IF hist.raw.level = rawLevel(in)
    THEN [hist.raw EXCEPT !.repeated = TRUE, !.from = levelHold.committed]
  ELSE [level |-> rawLevel(in), since |-> t, repeated |-> FALSE,
        from |-> levelHold.committed]

\* The history of stillness: the arrival time of the first frame of the
\* current run of still frames (speed below StillSpeed, or unknown, which the
\* calibration code reads as 0), Null after a moving frame.
StillHistory(h, in, sp, t) ==
  IF ~in.hasLm THEN h
  ELSE [h EXCEPT !.stillFrom = IF ~SpeedBelow(sp, StillSpeed) THEN Null
                               ELSE IF @ = Null THEN t ELSE @]

\* The history of the gates: whether a frame arriving at time t samples the
\* lighting, the passes of the quality check (of the lighting probe) since
\* its last failure, counted up to the number the gate needs, and the
\* failures of each seen so far.
isProbe(t) == t - lastFrameQualityAt >= LightingProbeMs
GateHistory(h, in, t) ==
  IF ~in.hasLm THEN h
  ELSE [h EXCEPT
          !.qRun = IF in.qok THEN Min2(@ + 1, QualityFramesNeeded) ELSE 0,
          !.qFails = IF in.qok THEN @ ELSE @ + 1,
          !.lRun = IF ~isProbe(t) THEN @
                   ELSE IF in.lok THEN Min2(@ + 1, LightingFramesNeeded) ELSE 0,
          !.lFails = IF isProbe(t) /\ ~in.lok THEN @ + 1 ELSE @]

\* The results of one pending send arrive: onResults runs with the closure
\* registered with that pose object, then the send's finally block.
PoseResults ==
  \E i \in 1..Len(pending), comp \in CompAngles, ratio \in Ratios,
     hasLm \in BOOLEAN, qok \in BOOLEAN, lok \in BOOLEAN :
    LET in == [hasLm |-> hasLm, angle |-> FeedAngle, comp |-> comp, ratio |-> ratio,
               qok |-> qok, lok |-> lok]
        bad == ~hasLm \/ ~qok \/ ~lok
        s0 == [S EXCEPT !.now = pending[i].due, !.pending = RemoveAt(pending, i)]
        n == onResults(s0, pending[i].cl, in)
    IN  /\ NothingDueBefore(pending[i].due)
        /\ bad => budget.bad > 0
        /\ ~hasLm => qok /\ lok
        /\ ~qok => lok
        /\ Commit([n EXCEPT !.inFlight = FALSE])
        /\ last' = [op |-> "PoseResults", in |-> in, cl |-> pending[i].cl,
                     scored |-> scored(s0, pending[i].cl, in)]
        /\ budget' = IF bad THEN [budget EXCEPT !.bad = @ - 1] ELSE budget
        /\ feed' = IF hasLm
                     THEN [feed EXCEPT !.pos = (@ % Len(FeedCycles[feed.kind])) + 1]
                     ELSE feed
        /\ hist' = StillHistory(
                     GateHistory(
                       [FrameHistory(in, frameSpeed(pending[i].due, in),
                                     /\ scored(s0, pending[i].cl, in)
                                     /\ n.exerciseActive /\ ~stoppedBySafety)
                          EXCEPT !.raw = RawRun(in, scored(s0, pending[i].cl, in),
                                                pending[i].due)],
                       in, pending[i].due),
                     in, frameSpeed(pending[i].due, in), pending[i].due)
        /\ UNCHANGED rx

LimitTick ==
  /\ running /\ NothingDueBefore(TimerDue)
  /\ Commit([limitCheck([S EXCEPT !.now = TimerDue]) EXCEPT !.limTimerAt = TimerDue])
  /\ Did("LimitTick")
  /\ UNCHANGED <<rx, feed, budget, hist>>

\* The session controls and the frame pipeline.
SessionNext ==
  \/ SetReadiness \/ StartBegin \/ StartFinish \/ Pause \/ SkipCalibration
  \/ CameraFrame \/ PoseResults \/ LimitTick

Next ==
  \/ SessionNext \/ Reset \/ SetPainBefore \/ SetPainCurrent
  \/ SetReportedSwelling \/ SetReportedDizziness

\* No call of a pure function is being looked at.
NoCalc == [fn |-> "none"]

InitSession(kinds, prescription, b) ==
  /\ now = Epoch /\ readiness = FALSE /\ status = "idle" /\ running = FALSE
  /\ camOn = FALSE /\ poseOn = FALSE /\ poseCl = NoClosure /\ startCl = NoClosure
  /\ inFlight = FALSE /\ lastAt = 0 /\ pending = <<>>
  /\ painBefore = DefaultPain /\ painCurrent = DefaultPain
  /\ reportedSwelling = FALSE /\ reportedDizziness = FALSE
  /\ level = "yellow" /\ phase = "positioning" /\ riskEvents = 0
  /\ repsCompleted = 0
  /\ calibration = [state |-> "idle", startedAt |-> Null]
  /\ baseline = [trunkAngleDeg |-> Null, distanceRatio |-> Null]
  /\ stillSince = Null /\ lastCompAngleDeg = 0 /\ lastDistanceRatio = Null
  /\ qualityOkFrames = 0 /\ lightingOkFrames = 0 /\ lastFrameQualityAt = 0
  /\ speedLast = [ts |-> 0, angle |-> 0]
  /\ goodPoseSince = Null /\ exerciseActive = FALSE
  /\ levelHold = [proposed |-> "none", since |-> 0, committed |-> "yellow"]
  /\ lastSampleAt = 0 /\ angleSamples = 0 /\ jerkFrames = 0
  /\ outOfRangeFrames = 0 /\ lastPainWarnAt = 0 /\ lastPoseGuideAt = 0
  /\ repTracker = [state |-> "low", minSeen |-> Null, maxSeen |-> Null]
  /\ repLastAt = 0 /\ startedAt = Null /\ stoppedBySafety = FALSE
  /\ events = <<>> /\ limTimerAt = 0
  /\ rx = prescription
  /\ feed \in [kind : kinds, pos : {1}]
  /\ budget = b
  /\ last = [op |-> "Init", in |-> NoFrame, cl |-> NoClosure, scored |-> FALSE]
  /\ hist = [activeTicks |-> 0, fastActive |-> 0, slowActive |-> FALSE, fastRun |-> 0,
          raw |-> NoRun, qRun |-> 0, lRun |-> 0, qFails |-> 0, lFails |-> 0,
          stillFrom |-> Null]

InitWith(kinds, prescription, b) ==
  InitSession(kinds, prescription, b) /\ calc = NoCalc

Budget(starts, reports, resets, bad, horizon) ==
  [starts |-> starts, reports |-> reports, resets |-> resets, bad |-> bad,
   horizon |-> horizon, pending |-> MaxPending]

\* A short session with every control: the limits are reached.
Init == InitWith({"reps"}, ShortRx, Budget(MaxStarts, MaxReports, MaxResets, 0, HorizonMain))
Spec == Init /\ [][Next]_vars

\* Short sessions with a symptom report, long enough to count repetitions.
InitLimits == InitWith({"reps"}, ShortRx, Budget(MaxStarts, MaxReports, 0, 0, HorizonLimits))
SpecLimits == InitLimits /\ [][SessionNext \/ SetReportedSwelling]_vars

\* The same with the timers and the frame pipeline scheduled fairly: the
\* interval fires, a due send is made, and results that may arrive do not
\* stay awaited for ever.
ResultsDue == \E i \in 1..Len(pending) : NothingDueBefore(pending[i].due)
FairLimits ==
  /\ SpecLimits
  /\ WF_vars(LimitTick) /\ WF_vars(CameraFrame)
  /\ []<>(~ResultsDue)

\* A long session of fast movement, with a symptom report.
InitJerk == InitWith({"jerk"}, LongRx, Budget(MaxStarts, MaxReports, 0, 0, HorizonJerk))
SpecJerk == InitJerk /\ [][SessionNext \/ SetReportedSwelling]_vars

\* A long session with the joint held outside the safe range.
InitHold == InitWith({"hold", "hold1"}, LongRx, Budget(MaxStarts, 0, 0, 0, HorizonHold))
SpecHold == InitHold /\ [][SessionNext]_vars

\* A long session with one frame of degraded capture.
InitLoss == InitWith({"loss"}, LongRx, Budget(MaxStarts, 0, 0, MaxBad, HorizonLoss))
SpecLoss == InitLoss /\ [][SessionNext]_vars

\* A long session in which the patient changes the current pain twice.
InitPain == InitWith({"reps"}, LongRx, Budget(MaxStarts, MaxPainReports, 0, 0, HorizonPain))
SpecPain == InitPain /\ [][SessionNext \/ SetPainCurrent]_vars

\* A slow device (a frame every 900 ms) with one frame of degraded capture.
InitGuide == InitWith({"far"}, LongRx, Budget(MaxStarts, 0, 0, MaxBad, HorizonGuide))
SpecGuide == InitGuide /\ [][SessionNext]_vars

\* A long session whose frames change between green, yellow and red.
InitLevels == InitWith({"levels"}, LongRx, Budget(MaxStarts, 0, 0, 0, HorizonLevels))
SpecLevels == InitLevels /\ [][SessionNext]_vars

\* Repetitions of small excursion under the wide prescription, with Reset.
InitWide == InitWith({"wide"}, WideRx, Budget(MaxStarts, 0, MaxResets, 0, HorizonWide))
SpecWide == InitWide /\ [][SessionNext \/ Reset]_vars

\* Sessions with two frames of degraded capture.
InitGates == InitWith({"reps"}, LongRx, Budget(MaxStarts, 0, 0, MaxGateBad, HorizonGates))
SpecGates == InitGates /\ [][SessionNext]_vars

\* Start clicked again and again before a session, each click refused for
\* high pain (and logged) once the patient has reported it.
InitLog == InitWith({"reps"}, LongRx, Budget(MaxLogStarts, MaxReports, 0, 0, 0))
SpecLog == InitLog /\ [][SetReadiness \/ SetPainBefore \/ StartBegin]_vars

\* A steady green feed with one degraded frame: the level shown after a
\* stretch of positioning frames.
InitShown == InitWith({"green"}, LongRx, Budget(MaxStarts, 0, 0, MaxBad, HorizonShown))
SpecShown == InitShown /\ [][SessionNext]_vars

\* A steady feed on a slow device, followed for longer than the interval
\* between two pain warnings, with the pain reported before or during it.
InitWarn == InitWith({"far"}, LongRx, Budget(MaxStarts, MaxReports, 0, 0, HorizonWarn))
SpecWarn == InitWarn /\ [][SessionNext \/ SetPainCurrent]_vars

\* A session started again, without a reset, after the repetition limit was
\* reached.
InitRestarts == InitWith({"quick"}, ShortRx, Budget(MaxRestarts, 0, 0, 0, HorizonRestarts))
SpecRestarts == InitRestarts /\ [][SessionNext]_vars

\* Pause and Start while the results of a send are still awaited.
InitOverlap ==
  InitWith({"reps"}, LongRx,
           [Budget(MaxStarts, 0, 0, 0, HorizonOverlap) EXCEPT !.pending = MaxOverlap])
SpecOverlap == InitOverlap /\ [][SessionNext]_vars

(* ----------------------- calls of pure functions ---------------------- *)
\* A call not yet made: the function, its arguments, no result.
Call(fn, in) == [fn |-> fn, in |-> in, done |-> FALSE, out |-> Null]
Made(fn) == calc.fn = fn /\ calc.done
Return(out) == calc' = [calc EXCEPT !.done = TRUE, !.out = out]

DeviationCalls ==
  {Call("deviationFromSafeRange", in) :
     in \in [angleDeg : 0..MaxCalcDeg, safeMinDeg : 0..MaxCalcDeg,
             safeMaxDeg : 0..MaxCalcDeg]}

ApplyDeviation ==
  /\ calc.fn = "deviationFromSafeRange" /\ ~calc.done
  /\ Return(deviationFromSafeRange(calc.in.angleDeg, calc.in.safeMinDeg,
                                   calc.in.safeMaxDeg))
  /\ UNCHANGED session

\* The classification of a frame under LongRx: primary angles around the
\* limits of the safe band (150..185), of the ideal band (162..180) and of
\* the stop threshold (15 beyond the safe band), posture angles around the
\* fixed threshold, and a baseline absent, within 12 degrees of the posture
\* angle 90, or further away.
ClassifyCalls ==
  {Call("evaluateByAngle", in) :
     in \in [primaryAngleDeg : {134, 135, 149, 150, 151, 161, 162, 163, 179, 180,
                                181, 184, 185, 186, 200, 201},
             compensationAngleDeg : {54, 55, 90},
             baselineTrunk : {Null, 77, 78, 90}]}

\* onResults: fb, and the compensation flag handed to the overlay.
ApplyClassify ==
  /\ calc.fn = "evaluateByAngle" /\ ~calc.done
  /\ LET fb == evaluateByAngle(calc.in.primaryAngleDeg, calc.in.compensationAngleDeg,
                               targets, rx.deviationStopDeg)
     IN  Return([level |-> fb.level,
                 compensation |->
                   \/ fb.compensation
                   \/ baselineCompensation(calc.in.compensationAngleDeg,
                                           calc.in.baselineTrunk)])
  /\ UNCHANGED session

\* Prescriptions with a narrow safe band (0 to 4 degrees in tenths) or a
\* wide one (35, 52 and 80 degrees), starting on a whole degree or not.
TargetCalls ==
  {Call("deriveTargetsFromPrescription", in) :
     in \in {[rx |-> [LongRx EXCEPT !.safeMinDeg = lo, !.safeMaxDeg = lo + span],
              idealPreference |-> pref] :
               lo \in {0, 1500, 1503},
               span \in (0..MaxCalcSpan) \cup {350, 520, 800},
               pref \in {"high", "low", "mid"}}}

ApplyTargets ==
  /\ calc.fn = "deriveTargetsFromPrescription" /\ ~calc.done
  /\ Return(deriveTargetsIn(UnitsPerDeg, calc.in.rx, calc.in.idealPreference))
  /\ UNCHANGED session

\* Math.floor in place of Math.round.
adherenceFloor(angles, reps, risk, limit, idealMinDeg) ==
  LET perRep == Max2(1, limit)
      frames == IF Len(angles) = 0 THEN 1 ELSE Len(angles)
      green == Len(SelectSeq(angles, LAMBDA a : a >= idealMinDeg))
      riskPenalty == Min2(30, risk * 3)
      num == 50 * Min2(reps, perRep) * frames + 50 * green * perRep
               - riskPenalty * perRep * frames
  IN  Max2(0, Min2(100, num \div (perRep * frames)))

\* repScore + greenPct - riskPenalty is the fraction num / den, with
\* repScore = 50 * min(reps, perRep) / perRep and greenPct = 50 * green /
\* frames (0 for an empty history); Math.round(x) is floor(x + 1/2).
adherenceScore(angles, reps, risk, limit, idealMinDeg) ==
  LET perRep == Max2(1, limit)
      frames == IF Len(angles) = 0 THEN 1 ELSE Len(angles)
      green == Len(SelectSeq(angles, LAMBDA a : a >= idealMinDeg))
      riskPenalty == Min2(30, risk * 3)
      den == perRep * frames
      num == 50 * Min2(reps, perRep) * frames + 50 * green * perRep
               - riskPenalty * den
  IN  Max2(0, Min2(100, (2 * num + den) \div (2 * den)))

\* Angle histories of frames just under, at and just over idealMinDeg, with
\* repetition counts up to the cap and limits from 0.
AdherenceCalls ==
  {Call("adherenceScore", in) :
     in \in [angles : UNION {[1..n -> {targets.idealMinDeg - 1, targets.idealMinDeg,
                                       targets.idealMinDeg + 1}] : n \in 0..MaxCalcFrames},
             repsCompleted : (0..MaxCalcReps) \cup {RepCap},
             riskEvents : 0..MaxCalcRisk,
             targetReps : 0..MaxCalcReps]}

ApplyAdherence ==
  /\ calc.fn = "adherenceScore" /\ ~calc.done
  /\ Return(adherenceScore(calc.in.angles, calc.in.repsCompleted, calc.in.riskEvents,
                           calc.in.targetReps, targets.idealMinDeg))
  /\ UNCHANGED session

\* A previous sample (none, or one taken at Epoch) and a new sample taken
\* around the two limits of the time between samples.
SpeedCalls ==
  {Call("angleSpeedDegPerSec", in) :
     in \in [last : {[ts |-> 0, angle |-> 0]}
                     \cup [ts : {Epoch}, angle : {150, 175}],
             nowMs : {Epoch + d : d \in {0, MinDtMs - 1, MinDtMs, MinDtMs + 1, 300,
                                         MaxDtMs - 1, MaxDtMs, MaxDtMs + 1}},
             angleDeg : {150, 175}]}

\* The value returned and the sample the function leaves in state.last.
ApplySpeed ==
  /\ calc.fn = "angleSpeedDegPerSec" /\ ~calc.done
  /\ Return([speed |-> angleSpeedDegPerSec(calc.in.last, calc.in.nowMs, calc.in.angleDeg),
             last |-> [ts |-> calc.in.nowMs, angle |-> calc.in.angleDeg]])
  /\ UNCHANGED session

\* One call of a pure function, made once the component is mounted.
InitCalc ==
  /\ InitSession({"reps"}, LongRx, Budget(0, 0, 0, 0, 0))
  /\ \/ calc \in DeviationCalls
     \/ calc \in ClassifyCalls
     \/ calc \in TargetCalls
     \/ calc \in AdherenceCalls
     \/ calc \in SpeedCalls
SpecCalc ==
  InitCalc /\ [][\/ ApplyDeviation \/ ApplyClassify \/ ApplyTargets
                 \/ ApplyAdherence \/ ApplySpeed]_vars

(* --------------------------- the event log ---------------------------- *)
IsStop(e) == e.type = "safety_stop"
StopCount(evs) == Cardinality({i \in 1..Len(evs) : IsStop(evs[i])})
LastStart(evs) ==
  LET starts == {i \in 1..Len(evs) : evs[i].type = "session_start"}
  IN  IF starts = {} THEN 0 ELSE CHOOSE i \in starts : \A j \in starts : j <= i
\* The stop events logged since the session last started.
SessionStops ==
  {i \in (LastStart(events) + 1)..Len(events) : IsStop(events[i])}
StopsWith(message) == {i \in SessionStops : events[i].message = message}
\* The last step was a frame tick (a limit-checker tick) that logged a stop.
LoggedNow ==
  /\ events # <<>>
  /\ IsStop(events[Len(events)])
  /\ events[Len(events)].ts = now
ClosureDanger(cl) ==
  cl.reportedSwelling \/ cl.reportedDizziness \/ cl.painCurrent >= PainStop
Tick == {"PoseResults", "LimitTick"}

LimitReached ==
  /\ startedAt # Null
  /\ \/ now - startedAt >= durationSec * 1000
     \/ repsCompleted >= targetReps
C2_OneStopPerTick ==
  /\ (last.op = "LimitTick" /\ LimitReached) => Cardinality(SessionStops) = 1
  /\ (last.op = "PoseResults" /\ last.scored /\ ClosureDanger(last.cl))
       => Cardinality(SessionStops) = 1

\* A limit-checker tick that finds both limits reached.
C2_Witness ==
  /\ last.op = "LimitTick" /\ LoggedNow
  /\ now - startedAt >= durationSec * 1000
  /\ repsCompleted >= targetReps
  /\ Cardinality(SessionStops) = 1

\* C3 (as amended): stoppedBySafety goes from true back to false only
\* through resetSession or through a start() that completes; stop/pause, a
\* frame tick, a timer tick and the other controls never re-arm the latch.
C3_RearmByResetOrStart ==
  [][stoppedBySafety /\ ~stoppedBySafety' => last'.op \in {"Reset", "StartFinish"}]_vars

\* C3 (as claimed): the latch goes back to false only through resetSession.
C3_RearmOnlyByReset ==
  [][stoppedBySafety /\ ~stoppedBySafety' => last'.op = "Reset"]_vars

\* A session started again right after a safety stop: the latch is clear.
C3_Witness ==
  /\ last.op = "StartFinish" /\ ~stoppedBySafety
  /\ Len(events) >= 2 /\ IsStop(events[Len(events) - 1])

\* C4: once stoppedBySafety is true, no frame tick changes the published
\* level, repsCompleted, riskEvents, the angle-sample log or the event log.
C4_FrozenAfterStop ==
  [][stoppedBySafety /\ last'.op = "PoseResults"
       => UNCHANGED <<level, repsCompleted, riskEvents, angleSamples, events>>]_vars

\* C5: when swelling or dizziness is reported, or current pain is 7 or more,
\* while the session is running, the next frame tick triggers the safety
\* stop, whatever the gates and the calibration state.
C5_ReportStopsNextFrame ==
  [][(/\ running
      /\ reportedSwelling \/ reportedDizziness \/ painCurrent >= PainStop
      /\ last'.op = "PoseResults" /\ last'.in.hasLm)
       => stoppedBySafety']_vars

\* A frame tick logs a stop event in this step.
FrameStopStep ==
  last'.op = "PoseResults" /\ StopCount(events') > StopCount(events)
ReasonStep == events'[Len(events')].message

C7_JerkNeedsThreeFastFrames ==
  [][(FrameStopStep /\ ReasonStep = ReasonJerk)
       => hist'.fastRun >= JerkFramesStop]_vars

\* C8: in the jerk scenario (speed 170 and 150 deg/s in turn, exercise
\* active, no frame slower than 140 deg/s) the jerk counter is never reset:
\* it equals the number of active frames faster than 160 deg/s until the
\* stop, which is logged on the third such frame.
C8_JerkScenario ==
  (feed.kind = "jerk" /\ ~hist.slowActive) =>
    /\ ~stoppedBySafety => (jerkFrames = hist.fastActive /\ hist.fastActive < JerkFramesStop)
    /\ StopsWith(ReasonJerk) # {} => hist.fastActive = JerkFramesStop
    /\ hist.fastActive >= JerkFramesStop => StopsWith(ReasonJerk) # {}

\* The jerk stop, logged on the fifth or sixth active frame.
C8_Witness ==
  /\ feed.kind = "jerk" /\ last.op = "PoseResults" /\ LoggedNow
  /\ StopsWith(ReasonJerk) # {} /\ ~hist.slowActive
  /\ hist.fastActive = JerkFramesStop /\ hist.activeTicks \in {5, 6}

\* C9: the out-of-range stop is logged only when the counter reaches 10; the
\* counter grows by one only on a frame tick with deviation above
\* deviationStopDeg, and any frame tick with deviation below
\* deviationStopDeg - 2 that leaves the session running resets it to 0.
C9_OutOfRangePersistence ==
  [][(last'.op = "PoseResults" /\ last'.in.hasLm) =>
       LET deviation == deviationFromSafeRange(last'.in.angle, targets.safeMinDeg,
                                               targets.safeMaxDeg)
       IN  /\ (FrameStopStep /\ ReasonStep = ReasonRange)
                => (outOfRangeFrames = OutOfRangeStop - 1 /\ deviation > rx.deviationStopDeg)
           /\ outOfRangeFrames' > outOfRangeFrames
                => (outOfRangeFrames' = outOfRangeFrames + 1 /\ deviation > rx.deviationStopDeg)
           /\ (running' /\ deviation < rx.deviationStopDeg - OutOfRangeHyst)
                => outOfRangeFrames' = 0]_vars

\* C10 (as claimed): with the angle held at 200 for 10 frames scored with the
\* exercise active, exactly one stop event is logged, with deviation_deg 15.
RangeStops == StopsWith(ReasonRange)
C10_StopAtBoundary ==
  (feed.kind = "hold" /\ hist.activeTicks >= OutOfRangeStop) =>
    /\ Cardinality(SessionStops) = 1
    /\ \A i \in SessionStops :
         events[i].message = ReasonRange /\ events[i].data.deviation_deg = 15

\* C10 (as amended): held at 200 the deviation is 15, which is not above
\* deviationStopDeg = 15: the out-of-range counter stays 0 and no
\* out-of-range stop is logged.  Held at 201 the counter follows the active
\* frames and exactly one stop event is logged, on the 10th, with
\* deviation_deg 16.
C10_StrictThreshold ==
  /\ feed.kind = "hold" => (outOfRangeFrames = 0 /\ SessionStops = {})
  /\ feed.kind = "hold1" =>
       /\ ~stoppedBySafety
            => (outOfRangeFrames = hist.activeTicks /\ hist.activeTicks < OutOfRangeStop)
       /\ hist.activeTicks >= OutOfRangeStop => RangeStops # {}
       /\ RangeStops # {} =>
            /\ Cardinality(SessionStops) = 1
            /\ hist.activeTicks = OutOfRangeStop
            /\ \A i \in RangeStops : events[i].data.deviation_deg = 16

\* Ten active frames at 200 and the session still runs.
C10_Witness ==
  /\ feed.kind = "hold" /\ hist.activeTicks >= OutOfRangeStop
  /\ running /\ outOfRangeFrames = 0

\* C11: a frame tick of a running session on which the current pain is between 4 and 6 and no
\* symptom is reported logs no stop event for pain or symptoms (if it logs a
\* stop at all, another stop condition, jerk or out-of-range, held) and
\* leaves the latch clear otherwise.
C11_ModeratePainNeverStops ==
  [][(/\ running /\ last'.op = "PoseResults"
      /\ painCurrent >= PainWarnMin /\ painCurrent <= PainWarnMax
      /\ ~reportedSwelling /\ ~reportedDizziness
      /\ FrameStopStep)
       => ReasonStep \in {ReasonJerk, ReasonRange}]_vars

\* C12: a frame tick on which the body-quality gate or the lighting gate is
\* not stable (or that carries no landmarks) logs no stop event and leaves
\* the latch as it was; with landmarks it switches to positioning mode and
\* logs at most one event, a position_guidance warning; any two
\* position_guidance events of the log are more than 6.5 s apart.
Guidance == {i \in 1..Len(events) : events[i].type = "position_guidance"}
GateUnstableStep ==
  /\ last'.op = "PoseResults" /\ last'.in.hasLm
  /\ qualityOkFrames' < QualityFramesNeeded \/ lightingOkFrames' < LightingFramesNeeded
StartRefused ==
  /\ ~running' /\ ~camOn' /\ ~poseOn' /\ status' = "ready"
  /\ UNCHANGED <<pending, hist, startedAt, repsCompleted, angleSamples>>
PainStopLogged ==
  /\ Len(events') = Len(events) + 1
  /\ events'[Len(events')].type = "pain_stop"
  /\ events'[Len(events')].severity = "stop"

ScoredStep == last'.op = "PoseResults" /\ last'.scored
C14_RedCommitsImmediately ==
  [][(ScoredStep /\ rawLevel(last'.in) = "red")
       => /\ levelHold'.committed = "red" /\ level' = "red"
          /\ levelHold'.proposed = "none"]_vars

\* The first red frame after a run of other frames, in a session that goes
\* on: red is committed and published at once.
C14_Witness ==
  /\ last.op = "PoseResults" /\ last.scored /\ rawLevel(last.in) = "red"
  /\ hist.raw.level = "red" /\ ~hist.raw.repeated /\ hist.raw.since = now
  /\ levelHold.committed = "red" /\ level = "red"
  /\ running /\ ~stoppedBySafety

\* The hold window of a change of the committed level.
HoldWindow(from, to) ==
  IF from = "yellow" /\ to = "green" THEN HoldYellowGreenMs
  ELSE IF from = "green" /\ to = "yellow" THEN HoldGreenYellowMs
  ELSE HoldOtherMs

\* C15: outside resetSession, the committed level changes to a non-red
\* level L only on a scored frame tick whose raw level is L, when every
\* scored frame since L was first proposed had raw level L, that run has at
\* least two frames, and the hold window of the change (650 ms yellow to
\* green, 250 ms green to yellow, 350 ms otherwise) has passed since its
\* first frame; the published level follows.  The first frame of a non-red
\* raw level never changes the committed level.
C15_HoldWindows ==
  /\ [][(/\ levelHold'.committed # levelHold.committed
          /\ levelHold'.committed # "red" /\ last'.op # "Reset")
         => /\ ScoredStep
            /\ rawLevel(last'.in) = levelHold'.committed
            /\ levelHold.proposed = levelHold'.committed
            /\ hist'.raw.level = levelHold'.committed /\ hist'.raw.repeated
            /\ now' - hist'.raw.since
                 >= HoldWindow(levelHold.committed, levelHold'.committed)
            /\ level' = levelHold'.committed]_vars
  /\ [][(ScoredStep /\ rawLevel(last'.in) # "red" /\ ~hist'.raw.repeated)
         => levelHold'.committed = levelHold.committed]_vars

\* Green committed over yellow on the first green frame that comes 650 ms
\* or more after the first of its run (the eighth, at 100 ms a frame).
C15_Witness ==
  /\ last.op = "PoseResults" /\ last.scored
  /\ hist.raw.from = "yellow" /\ hist.raw.level = "green"
  /\ levelHold.committed = "green" /\ level = "green"
  /\ now - hist.raw.since = 700

\* C16: a scored frame whose raw level is the committed level leaves the
\* committed level as it is, with the proposal empty and no hold timer
\* running, however many such frames follow one another.
C16_HoldIdempotent ==
  [][(ScoredStep /\ rawLevel(last'.in) = levelHold.committed)
       => levelHold' = [proposed |-> "none", since |-> 0,
                        committed |-> levelHold.committed]]_vars

\* The committed level fed again: a green frame after green was committed.
C16_Witness ==
  /\ last.op = "PoseResults" /\ last.scored /\ rawLevel(last.in) = "green"
  /\ hist.raw.from = "green" /\ hist.raw.repeated
  /\ levelHold = [proposed |-> "none", since |-> 0, committed |-> "green"]

\* C17: outside resetSession, repsCompleted never decreases; only a frame
\* tick raises it, and by one.
C17_RepsMonotonic ==
  [][last'.op # "Reset" =>
       /\ repsCompleted' >= repsCompleted
       /\ repsCompleted' # repsCompleted
            => (last'.op = "PoseResults" /\ repsCompleted' = repsCompleted + 1)]_vars

\* The second repetition of a session is counted.
C17_Witness ==
  /\ last.op = "PoseResults" /\ last.scored
  /\ repsCompleted = 2 /\ repLastAt = now /\ running

\* C18: a repetition is counted only on a scored frame tick that finds the
\* tracker in state high and the angle at or below idealMin - 8, with an
\* excursion (max minus min angle seen in the cycle) of at least 20% of the
\* safe-band span and at least 800 ms since the last counted repetition.
C18_RepGuards ==
  [][repsCompleted' > repsCompleted =>
       LET angle == last'.in.angle
           mn == IF repTracker.minSeen = Null THEN angle ELSE Min2(repTracker.minSeen, angle)
           mx == IF repTracker.maxSeen = Null THEN angle ELSE Max2(repTracker.maxSeen, angle)
       IN  /\ ScoredStep
           /\ repTracker.state = "high" /\ repTracker'.state = "low"
           /\ angle <= targets.idealMinDeg - RepExitOffset
           /\ (mx - mn) * 100 >= 20 * (targets.safeMaxDeg - targets.safeMinDeg)
           /\ now' - repLastAt >= RepMinIntervalMs]_vars

\* C19: on a frame tick the quality gate is trusted only if this frame and the
\* 7 evaluated frames before it passed, and the lighting gate only if the last
\* 3 probes passed; a failing frame (probe) sets its count to zero and the
\* frame is not scored; a frame is scored only with both gates trusted.
C19_ConsecutivePasses ==
  [][(last'.op = "PoseResults" /\ last'.in.hasLm) =>
       /\ qualityOkFrames' >= QualityFramesNeeded => hist'.qRun >= QualityFramesNeeded
       /\ lightingOkFrames' >= LightingFramesNeeded => hist'.lRun >= LightingFramesNeeded
       /\ ~last'.in.qok => (qualityOkFrames' = 0 /\ ~last'.scored)
       /\ (isProbe(now') /\ ~last'.in.lok) => (lightingOkFrames' = 0 /\ ~last'.scored)
       /\ last'.scored => (/\ hist'.qRun >= QualityFramesNeeded
                           /\ hist'.lRun >= LightingFramesNeeded)]_vars

\* Both gates have failed once, and the 8th pass in a row reopens the quality
\* gate on a scored frame.
C19_Witness ==
  /\ last.op = "PoseResults" /\ last.scored
  /\ hist.qFails >= 1 /\ hist.lFails >= 1
  /\ qualityOkFrames = QualityFramesNeeded /\ hist.qRun = QualityFramesNeeded
  /\ lightingOkFrames >= LightingFramesNeeded

\* C20: calibration goes from idle to calibrating only on a frame tick with
\* both gates stable and a run of still frames at least 600 ms long; it
\* becomes done only from calibrating, at least 2000 ms after calibrating
\* began, with no moving frame since.
CalibrationBegins == calibration.state = "idle" /\ calibration'.state = "calibrating"
CalibrationCompletes == calibration.state # "done" /\ calibration'.state = "done"
C20_CalibrationGuards ==
  /\ [][CalibrationBegins =>
          /\ last'.op = "PoseResults" /\ last'.in.hasLm
          /\ qualityStableOk(S') /\ lightingStableOk(S')
          /\ hist'.stillFrom # Null /\ now' - hist'.stillFrom >= StillPreMs]_vars
  /\ [][CalibrationCompletes =>
          /\ last'.op = "PoseResults" /\ last'.in.hasLm
          /\ calibration.state = "calibrating"
          /\ now' - calibration.startedAt >= CalibMs
          /\ hist'.stillFrom # Null /\ hist'.stillFrom <= calibration.startedAt]_vars

\* C21: a frame tick of a running session that finds the calibration state
\* neither done nor skipped leaves the engine in positioning mode, counts no
\* repetition, adds no risk event, appends no angle sample and advances
\* neither the jerk nor the out-of-range counter.
C21_NoScoringBeforeCalibration ==
  [][(/\ last'.op = "PoseResults" /\ last'.in.hasLm /\ running
      /\ calibration.state # "done" /\ calibration.state # "skipped") =>
       /\ phase' = "positioning"
       /\ repsCompleted' = repsCompleted
       /\ riskEvents' = riskEvents
       /\ angleSamples' = angleSamples
       /\ jerkFrames' <= jerkFrames
       /\ outOfRangeFrames' <= outOfRangeFrames]_vars

\* C22: the event log never holds more than 500 entries and the angle-sample
\* log never more than 2000.
C22_LogsBounded ==
  /\ Len(events) <= EventCap
  /\ angleSamples <= SampleCap

\* C23: a result delivered without landmarks changes nothing of the session:
\* level, phase, repetitions, risk events, logs, gate counters, calibration
\* and baseline, safety counters, speed and level filters, rep tracker and
\* stop latch keep their values.
C23_MissingLandmarksSkipped ==
  [][(last'.op = "PoseResults" /\ ~last'.in.hasLm) =>
       UNCHANGED <<level, phase, repsCompleted, riskEvents, events, angleSamples,
                   lastSampleAt, qualityOkFrames, lightingOkFrames,
                   lastFrameQualityAt, calibration, baseline, stillSince,
                   jerkFrames, outOfRangeFrames, speedLast, levelHold,
                   goodPoseSince, exerciseActive, repTracker, repLastAt,
                   lastPainWarnAt, lastPoseGuideAt, stoppedBySafety, running,
                   status, startedAt>>]_vars

\* A result without landmarks arrives in a running session whose frames are
\* scored.
C23_Witness ==
  /\ last.op = "PoseResults" /\ ~last.in.hasLm
  /\ running /\ angleSamples > 0 /\ qualityOkFrames >= QualityFramesNeeded

\* C24: at any time at most one send to the pose pipeline awaits its results.
C24_NoOverlap == Len(pending) <= 1

\* C25: when a session has been started again, before its first frame, the
\* gate counters, the safety counters, the level hold, the rep tracker, the
\* exercise-active flag, the stop latch, the calibration state and the
\* baseline have their initial values.
C25_CleanSlate ==
  last.op = "StartFinish" =>
    /\ qualityOkFrames = 0 /\ lightingOkFrames = 0
    /\ jerkFrames = 0 /\ outOfRangeFrames = 0
    /\ levelHold = [proposed |-> "none", since |-> 0, committed |-> "yellow"]
    /\ repTracker = [state |-> "low", minSeen |-> Null, maxSeen |-> Null]
    /\ ~exerciseActive /\ goodPoseSince = Null
    /\ ~stoppedBySafety
    /\ calibration = [state |-> "idle", startedAt |-> Null]
    /\ baseline = [trunkAngleDeg |-> Null, distanceRatio |-> Null]

\* C26: in a running session not yet stopped by safety, the limit checker is
\* never more than 500 ms away; a tick that finds the duration elapsed or the
\* repetition limit reached logs a stop and ends the session; and once a
\* limit is reached the session does end (or the clock of the scenario
\* runs out before the tick).
C26_LimitsStop ==
  /\ [](running => (now <= TimerDue /\ TimerDue <= now + LimitCheckMs))
  /\ [][(last'.op = "LimitTick" /\ ~stoppedBySafety /\ LimitReached') =>
          /\ stoppedBySafety' /\ ~running'
          /\ Len(events') = Len(events) + 1 /\ LoggedNow'
          /\ events'[Len(events')].message \in {ReasonTime, ReasonReps}]_vars
  /\ (running /\ ~stoppedBySafety /\ LimitReached)
        ~> (~running \/ stoppedBySafety \/ TimerDue > Epoch + budget.horizon)

\* The limit checker ends a session for the repetition limit alone.
C26_Witness ==
  /\ last.op = "LimitTick" /\ LoggedNow /\ stoppedBySafety /\ ~running
  /\ events[Len(events)].message = ReasonReps
  /\ now - startedAt < durationSec * 1000

\* C27: for a safe band with safeMin <= safeMax the deviation is
\* max(0, safeMin - angle, angle - safeMax), is never negative, and is 0
\* exactly when the angle lies in the band.
C27_Deviation ==
  (Made("deviationFromSafeRange") /\ calc.in.safeMinDeg <= calc.in.safeMaxDeg) =>
    /\ calc.out = Max2(0, Max2(calc.in.safeMinDeg - calc.in.angleDeg,
                               calc.in.angleDeg - calc.in.safeMaxDeg))
    /\ calc.out >= 0
    /\ calc.out = 0 <=> (/\ calc.in.safeMinDeg <= calc.in.angleDeg
                         /\ calc.in.angleDeg <= calc.in.safeMaxDeg)

\* The deviation of an angle below a proper band.
C27_Witness ==
  /\ Made("deviationFromSafeRange")
  /\ calc.in.angleDeg < calc.in.safeMinDeg /\ calc.in.safeMinDeg < calc.in.safeMaxDeg
  /\ calc.out = calc.in.safeMinDeg - calc.in.angleDeg

\* C28: a frame is red if its deviation exceeds deviationStopDeg, or if it
\* deviates at all while the posture angle is below 55 degrees or more than
\* 12 degrees from the calibrated baseline; otherwise yellow if the angle is
\* outside the safe band or the ideal band or the posture is so flagged;
\* otherwise green.
C28_Classification ==
  Made("evaluateByAngle") =>
    LET angle == calc.in.primaryAngleDeg
        comp == calc.in.compensationAngleDeg
        base == calc.in.baselineTrunk
        deviation == Max2(0, Max2(targets.safeMinDeg - angle, angle - targets.safeMaxDeg))
        flag == \/ comp < CompensationHipMinDeg
                \/ (base # Null /\ Abs(comp - base) > BaselineTolDeg)
    IN  calc.out.level =
          IF deviation > rx.deviationStopDeg \/ (flag /\ deviation > 0) THEN "red"
          ELSE IF \/ angle < targets.safeMinDeg \/ angle > targets.safeMaxDeg
                  \/ angle < targets.idealMinDeg \/ angle > targets.idealMaxDeg
                  \/ flag
            THEN "yellow"
          ELSE "green"

\* C29: for a prescription with safeMinDeg <= safeMaxDeg and any ideal
\* preference the targets keep the prescription's safe band and
\* safeMinDeg <= idealMinDeg <= idealMaxDeg <= safeMaxDeg.
C29_IdealInsideSafe ==
  (/\ Made("deriveTargetsFromPrescription")
   /\ calc.in.rx.safeMinDeg <= calc.in.rx.safeMaxDeg) =>
    /\ calc.out.safeMinDeg = calc.in.rx.safeMinDeg
    /\ calc.out.safeMaxDeg = calc.in.rx.safeMaxDeg
    /\ calc.out.safeMinDeg <= calc.out.idealMinDeg
    /\ calc.out.idealMinDeg <= calc.out.idealMaxDeg
    /\ calc.out.idealMaxDeg <= calc.out.safeMaxDeg

\* C30: the adherence score is an integer in 0..100 and is the clamp to
\* 0..100 of the rounding (halves upward) of min(1, reps / max(1, repLimit))
\* * 50 + share * 50 - min(30, riskEvents * 3), where share is the share of
\* recorded frames with angle >= idealMin and is 0 for an empty history.
C30_AdherenceScore ==
  Made("adherenceScore") =>
    LET reps == calc.in.repsCompleted
        perRep == IF calc.in.targetReps < 1 THEN 1 ELSE calc.in.targetReps
        frames == Len(calc.in.angles)
        green == Cardinality({i \in 1..frames : calc.in.angles[i] >= targets.idealMinDeg})
        perFrame == IF frames = 0 THEN 1 ELSE frames
        penalty == IF calc.in.riskEvents * 3 > 30 THEN 30 ELSE calc.in.riskEvents * 3
        den == perRep * perFrame
        num == 50 * (IF reps > perRep THEN perRep ELSE reps) * perFrame
                 + 50 * green * perRep - penalty * den
    IN  /\ calc.out \in 0..100
        /\ \E k \in -30..100 :
             /\ (2 * k - 1) * den <= 2 * num
             /\ 2 * num < (2 * k + 1) * den
             /\ calc.out = IF k < 0 THEN 0 ELSE k

\* C30 as stated, with reps / repLimit and the share of frames taken as
\* written: reps / 0 is unbounded for reps > 0 (so min(1, .) is 1), and
\* 0 / 0 and the share of no frames have no value.
C30_AsStated ==
  Made("adherenceScore") =>
    LET reps == calc.in.repsCompleted
        limit == calc.in.targetReps
        frames == Len(calc.in.angles)
        green == Cardinality({i \in 1..frames : calc.in.angles[i] >= targets.idealMinDeg})
        penalty == IF calc.in.riskEvents * 3 > 30 THEN 30 ELSE calc.in.riskEvents * 3
        perRep == IF limit = 0 THEN 1 ELSE limit
        done == IF limit = 0 \/ reps > limit THEN perRep ELSE reps
        den == perRep * frames
        num == 50 * done * frames + 50 * green * perRep - penalty * den
    IN  /\ calc.out \in 0..100
        /\ limit # 0 \/ reps # 0
        /\ frames # 0
        /\ \E k \in -30..100 :
             /\ (2 * k - 1) * den <= 2 * num
             /\ 2 * num < (2 * k + 1) * den
             /\ calc.out = IF k < 0 THEN 0 ELSE k

\* A call with no repetition limit, no repetition done and no frame
\* recorded, after three risk events.
C30_Witness ==
  /\ Made("adherenceScore")
  /\ calc.in.targetReps = 0 /\ calc.in.repsCompleted = 0
  /\ calc.in.angles = <<>> /\ calc.in.riskEvents = 3
  /\ calc.out = 0

\* C31: at the end of every scoring frame tick of a running session that
\* the tick does not stop, the level shown equals the committed level of the
\* level-hold state, also after a stretch of positioning frames.
C31_LevelFollowsHold ==
  [][(ScoredStep /\ running /\ running' /\ ~stoppedBySafety')
       => level' = levelHold'.committed]_vars

\* C32: while a session is running with repLimit >= 1, repsCompleted never
\* exceeds repLimit.
C32_RepLimitNotOvershot ==
  (running /\ targetReps >= 1) => repsCompleted <= targetReps

\* C33: on the first scoring frame after a stretch of positioning frames
\* (the positioning gate has cleared goodPoseSince) the jerk counter and the
\* out-of-range counter are 0.
C33_CountersClearedByLoss ==
  [][(ScoredStep /\ phase = "positioning" /\ goodPoseSince = Null)
       => (jerkFrames' = 0 /\ outOfRangeFrames' = 0)]_vars

\* C34: a jerk stop or an out-of-range stop is logged on a frame tick only
\* with the exercise-active flag set, on a frame that finds both gates
\* stable and the calibration done or skipped, at least 900 ms after the
\* first frame of the run of such frames; a positioning frame clears the
\* flag and the start of the wait.
C34_StopsNeedSettledPose ==
  /\ [][(FrameStopStep /\ ReasonStep \in {ReasonJerk, ReasonRange})
          => /\ exerciseActive'
             /\ qualityOkFrames' >= QualityFramesNeeded
             /\ lightingOkFrames' >= LightingFramesNeeded
             /\ calibration.state \in {"done", "skipped"}
             /\ goodPoseSince' # Null
             /\ now' - goodPoseSince' >= ActiveAfterMs]_vars
  /\ [][(last'.op = "PoseResults" /\ last'.in.hasLm /\ ~last'.scored)
          => (~exerciseActive' /\ goodPoseSince' = Null)]_vars

\* C35: when a frame tick of a running session ends a stretch of 600 ms +
\* 2000 ms plus two frames in which the session ran, every frame was still
\* and both gates were stable (the quality count and the lighting count
\* have been at their thresholds for that long), the calibration state is
\* done and the baseline is recorded.
C35_CalibrationCompletes ==
  LET wait == StillPreMs + CalibMs + 2 * FeedGaps[feed.kind]
  IN  (/\ running /\ last.op = "PoseResults" /\ last.in.hasLm
       /\ now - startedAt >= wait
       /\ hist.stillFrom # Null /\ now - hist.stillFrom >= wait
       /\ qualityOkFrames >= QualityFramesNeeded + wait \div FeedGaps[feed.kind]
       /\ lightingOkFrames >= LightingFramesNeeded + wait \div LightingProbeMs)
        => /\ calibration.state = "done"
           /\ baseline.trunkAngleDeg # Null

\* C36: once skipCalibration has set the calibration state to skipped, a
\* frame tick of the running session that finds both gates stable is scored,
\* and the state stays skipped until a reset or a start.
C36_SkipEnablesAnalysis ==
  /\ [][(/\ last'.op = "PoseResults" /\ last'.in.hasLm /\ running
          /\ calibration.state = "skipped"
          /\ qualityOkFrames' >= QualityFramesNeeded
          /\ lightingOkFrames' >= LightingFramesNeeded)
          => last'.scored]_vars
  /\ [][(calibration.state = "skipped" /\ calibration'.state # "skipped")
          => last'.op \in {"Reset", "StartFinish"}]_vars

\* C37: a frame tick of a running session in calibration state calibrating
\* whose speed is 20 deg/s or more (it ends the run of still frames) returns
\* the state to idle, clears the stillness timer and records no baseline.
C37_MovementCancels ==
  [][(/\ last'.op = "PoseResults" /\ last'.in.hasLm /\ running
      /\ calibration.state = "calibrating"
      /\ hist'.stillFrom = Null)
       => /\ calibration'.state = "idle"
          /\ stillSince' = Null
          /\ baseline' = baseline]_vars

\* C38: between a session start and the next reset or start the baseline is
\* written at most once: a step that writes it (skipCalibration, or a frame
\* tick that sets the calibration state to done or changes the baseline)
\* finds the baseline unset, as start and reset leave it.
C38_BaselineOnce ==
  [][(\/ last'.op = "SkipCalibration"
      \/ /\ last'.op = "PoseResults"
         /\ (CalibrationCompletes \/ baseline' # baseline))
       => (baseline.trunkAngleDeg = Null /\ baseline.distanceRatio = Null)]_vars

\* C39: angleSpeedDegPerSec returns the signed speed (angle - previous
\* angle) / delta-t exactly when there is a previous sample and delta-t lies
\* in [50 ms, 1000 ms], both bounds included, and no speed otherwise; in
\* every case the current sample becomes the previous sample.
C39_SpeedWindow ==
  Made("angleSpeedDegPerSec") =>
    LET dt == calc.in.nowMs - calc.in.last.ts
    IN  /\ calc.out.speed.known <=> (calc.in.last.ts # 0 /\ dt >= MinDtMs /\ dt <= MaxDtMs)
        /\ calc.out.speed.known =>
              calc.out.speed.dAngle * dt
                = (calc.in.angleDeg - calc.in.last.angle) * calc.out.speed.dtMs
        /\ calc.out.last = [ts |-> calc.in.nowMs, angle |-> calc.in.angleDeg]

\* C40: any two pain_warning events of the log with no session start
\* between them are more than 10 s apart.
C40_PainWarningsRateLimited ==
  \A i, j \in 1..Len(events) :
    (/\ i < j
     /\ events[i].type = "pain_warning" /\ events[j].type = "pain_warning"
     /\ \A k \in i..j : events[k].type # "session_start")
      => events[j].ts - events[i].ts > PainWarnMs

\* Two pain warnings logged in one session, the second by the last frame.
C40_Witness ==
  /\ last.op = "PoseResults" /\ running
  /\ Len(events) >= 2
  /\ events[Len(events)].type = "pain_warning" /\ events[Len(events)].ts = now
  /\ \E i \in 1..(Len(events) - 1) :
       /\ events[i].type = "pain_warning"
       /\ \A k \in i..Len(events) : events[k].type # "session_start"
====
